---- MODULE Spec2Model ----
(***************************************************************************)
(* A model of package idgen (idgen.go): GetMACAddress, the GenerateIDs     *)
(* producer goroutine, the GenerateNIDs batch call, GetUnixNanoFromID and  *)
(* the ByIDCreationTime sort interface.                                    *)
(*                                                                         *)
(* A []byte is a sequence of bytes 0..255.  A slice handed over a channel  *)
(* is a reference: the channel and the result hold addresses, and heap     *)
(* maps an address to the bytes stored there.  Integers are kept within    *)
(* the range TLC computes with; the byte encodings are the two's           *)
(* complement little-endian ones of encoding/binary, computed byte by      *)
(* byte.                                                                   *)
(***************************************************************************)
EXTENDS Integers, Sequences, FiniteSets, TLC

VARIABLES
    host,        \* what net.Interfaces() answers on this machine
    mac,         \* the hardware address GetMACAddress returned (<<>> is nil)
    macErr,      \* the error GetMACAddress returned ("unset" before the call)
    looked,      \* how many interfaces GetMACAddress's loop examined
    now,         \* the value time.Now().UnixNano() returns at this moment
    CPUCount,    \* runtime.GOMAXPROCS(0)
    pc,          \* per GenerateNIDs call: "idle", "spawn", "drain", "done";
                 \* "direct" for a caller that uses GenerateIDs itself
    n,           \* per call: the argument n
    ids,         \* per call: the result slice (addresses, NIL where unset)
    i,           \* per call: the drain loop's index
    routineID,   \* per call: the spawn loop's index
    results,     \* per call: the channel's buffer, a queue of addresses
    chancap,     \* per call: the capacity the channel was made with
    received,    \* per call: every address taken off the channel, in order
    wpc,         \* per producer: "none", "build" (lines 49-73), "send" (75)
    iter,        \* per producer: iterations begun so far
    uniquePart,  \* per producer: the contents of the entropy buffer
    output,      \* per producer: the address of the current output buffer
    heap,        \* address -> bytes of every output buffer allocated
    captured,    \* address -> the timestamp read in the iteration that made it
    input,       \* codec: the two byte slices handed to the codec
    decoded,     \* codec: the call made on them and what it gave back
    a,           \* sort: the ByIDCreationTime slice
    a0,          \* sort: that slice as it was handed to sort.Sort
    si,          \* sort: insertion sort's outer index
    sj,          \* sort: insertion sort's inner index
    spc          \* sort: "fresh", "sorting", "sorted"

vars == <<host, mac, macErr, looked, now, CPUCount, pc, n, ids, i, routineID, results,
          chancap, received, wpc, iter, uniquePart, output, heap, captured,
          input, decoded, a, a0, si, sj, spc>>

batchVars == <<pc, n, ids, i, routineID, results, chancap, received, wpc, iter,
               uniquePart, output, heap, captured>>
macVars   == <<host, mac, macErr, looked>>
codecVars == <<input, decoded>>
sortVars  == <<a, a0, si, sj, spc>>

-----------------------------------------------------------------------------
(* Bounds of the model.                                                    *)

MaxCalls == 2     \* GenerateNIDs calls in one behaviour
MaxCPU   == 2     \* largest GOMAXPROCS
MaxN     == 2     \* largest n asked of GenerateNIDs
MaxAhead == 2     \* identifiers built and not yet received, per call
MaxIfaces == 3    \* longest interface list of a host
MaxSort  == 3     \* longest slice handed to sort.Sort
MaxExtra == 1     \* bytes by which a decoded input may exceed 16
MaxChan  == 1     \* largest capacity of a channel a direct caller makes

Calls   == 1..MaxCalls
Workers == 0..(MaxCPU - 1)
NIL     == <<0, 0, 0>>   \* the nil slice, as an address

\* The instants the clock is observed at (it only moves forward): one before
\* and one after the epoch, neither fitting one byte.
Times == {-256, 256}

\* The timestamps of the identifiers handed to the codec and to sort.Sort.
Stamps == {-256, -1, 0, 256}

-----------------------------------------------------------------------------
(* encoding/binary, little endian.                                         *)

RECURSIVE LEBytes(_, _)
\* The k low bytes of v in two's complement, least significant first.
LEBytes(v, k) ==
    IF k = 0 THEN <<>> ELSE <<v % 256>> \o LEBytes(v \div 256, k - 1)

\* A faulty PutInt64LE: the value narrowed to its low byte before writing.
PutInt64LENarrow(v) == <<v % 256, 0, 0, 0, 0, 0, 0, 0>>

\* binary.Write(w, binary.LittleEndian, timestamp), timestamp an int64
PutInt64LE(v) == LEBytes(v, 8)

\* binary.Write(w, binary.LittleEndian, hash.Sum64()), a uint64
PutUint64LE(v) == LEBytes(v, 8)

\* binary.Write(w, binary.LittleEndian, mac): the bytes of the slice, as they
\* are.
PutBytes(b) == b

\* binary.Write(w, binary.LittleEndian, routineID), routineID an int: int is
\* not a fixed-size type, so binary.Write writes nothing and returns an error,
\* which GenerateIDs drops.
PutIntLE(v) == <<>>

RECURSIVE SignedFrom(_, _)
\* The signed value of bytes b[j..8], b[8] the most significant.
SignedFrom(b, j) ==
    IF j = 8 THEN (IF b[8] >= 128 THEN b[8] - 256 ELSE b[8])
    ELSE b[j] + 256 * SignedFrom(b, j + 1)

\* A faulty ReadInt64LE: -1 for an input too short to decode.
ReadInt64LEMinus(b) == IF Len(b) < 8 THEN -1 ELSE SignedFrom(b, 1)

\* binary.Read(r, binary.LittleEndian, &result), result an int64 that is 0
\* before the call: with fewer than 8 bytes to read, io.ReadFull fails and
\* result is left alone; otherwise the first 8 bytes are decoded.
ReadInt64LE(b) == IF Len(b) < 8 THEN 0 ELSE SignedFrom(b, 1)

\* GetUnixNanoFromID: the error of binary.Read is dropped, and nothing looks at
\* len(id).
GetUnixNanoFromID(id) == ReadInt64LE(id)

-----------------------------------------------------------------------------
(* xxhash.XXHash64 (github.com/OneOfOne/xxhash), abstracted: a deterministic *)
(* digest of the bytes written since Reset, with no state carried from one   *)
(* Reset to the next.                                                        *)

RECURSIVE Mix(_, _, _)
Mix(h, b, k) ==
    IF k > Len(b) THEN h ELSE Mix((h * 31 + b[k] + 1) % 1000003, b, k + 1)

\* hash.Reset(); hash.Write(b); hash.Sum64()
Sum64(b) == Mix(7, b, 1)

-----------------------------------------------------------------------------
(* GetMACAddress.                                                          *)

\* Interfaces a machine may have: a name and a hardware address (empty for
\* an interface that has none, 8 bytes for an EUI-64 one).
Lo   == [Name |-> "lo",   HardwareAddr |-> <<>>]
Eth0 == [Name |-> "eth0", HardwareAddr |-> <<2, 66, 172, 17, 0, 2>>]
Tun0 == [Name |-> "tun0", HardwareAddr |-> <<>>]
Fw0  == [Name |-> "fw0",  HardwareAddr |-> <<0, 17, 34, 255, 254, 51, 68, 85>>]
Interfaces == {Lo, Eth0, Tun0, Fw0}

IfaceLists == UNION {[1..k -> Interfaces] : k \in 0..MaxIfaces}

\* What net.Interfaces() returns: an error (and no list), or the list.
Hosts ==
    {[fails |-> TRUE, ifaces |-> <<>>]}
        \cup {[fails |-> FALSE, ifaces |-> l] : l \in IfaceLists}

ErrInterfaces == "error of net.Interfaces"
ErrNoSuitable == "Could not find a MAC address to use in unique IDs No suitable interface on this machine."

\* A faulty Usable: the name is not looked at.
UsableAny(iface) == TRUE

\* The test of the loop's if: is this interface one to return?
Usable(iface) == iface.Name # "lo"

RECURSIVE RangeIfaces(_, _)
\* for _, iface := range ifaces, from index k on.
RangeIfaces(ifaces, k) ==
    IF k > Len(ifaces)
    THEN [addr |-> <<>>, err |-> ErrNoSuitable, looked |-> Len(ifaces)]
    ELSE IF Usable(ifaces[k])
         THEN [addr |-> ifaces[k].HardwareAddr, err |-> "nil", looked |-> k]
         ELSE RangeIfaces(ifaces, k + 1)

\* A faulty GetMACAddress: the error of net.Interfaces is not looked at.
GetMACAddressUnchecked(h) == RangeIfaces(h.ifaces, 1)

GetMACAddress(h) ==
    IF h.fails
    THEN [addr |-> <<>>, err |-> ErrInterfaces, looked |-> 0]
    ELSE RangeIfaces(h.ifaces, 1)

\* GetMACAddress called on the machine.
Resolve ==
    /\ macErr = "unset"
    /\ mac' = GetMACAddress(host).addr
    /\ macErr' = GetMACAddress(host).err
    /\ looked' = GetMACAddress(host).looked
    /\ UNCHANGED <<host, now, CPUCount, batchVars, codecVars, sortVars>>

-----------------------------------------------------------------------------
(* GenerateIDs: one producer goroutine, <<c, w>>, of call c with           *)
(* routineID w.                                                            *)

\* A faulty ChanCap: one slot for each producer.
ChanCapSmall == CPUCount

\* make(chan []byte, 128*CPUCount)
ChanCap == 128 * CPUCount

\* What the iteration hashes: uniquePart after the three binary.Write calls.
EntropyBytes(timestamp, m, rid) ==
    PutInt64LE(timestamp) \o PutBytes(m) \o PutIntLE(rid)

\* A faulty OutputBytes: the digest written as a 32-bit value.
OutputBytesShort(timestamp, digest) ==
    PutInt64LE(timestamp) \o LEBytes(digest, 4)

\* A faulty OutputBytes: the digest written before the timestamp.
OutputBytesSwapped(timestamp, digest) ==
    PutUint64LE(digest) \o PutInt64LE(timestamp)

\* What the iteration sends: output after its two binary.Write calls.
OutputBytes(timestamp, digest) ==
    PutInt64LE(timestamp) \o PutUint64LE(digest)

\* A faulty NewOutput: the producer's first buffer, used again.
NewOutputReused(c, w) == <<c, w, 1>>

\* output = new(bytes.Buffer): memory no earlier iteration has.
NewOutput(c, w) == <<c, w, iter[c][w] + 1>>

\* Identifiers of call c that are built and not yet received.
Ahead(c) ==
    Len(results[c]) + Cardinality({w \in Workers : wpc[c][w] = "send"})

\* Lines 49-73: one iteration up to the send.
Iterate(c, w) ==
    /\ wpc[c][w] = "build"
    /\ \E timestamp \in {now} :
       \E entropy \in {EntropyBytes(timestamp, mac, w)} :
       \E bytes \in {OutputBytes(timestamp, Sum64(entropy))} :
       \E addr \in {NewOutput(c, w)} :
           /\ uniquePart' = [uniquePart EXCEPT ![c][w] = entropy]
           /\ output' = [output EXCEPT ![c][w] = addr]
           /\ heap' = [x \in DOMAIN heap \cup {addr} |->
                          IF x = addr THEN bytes ELSE heap[x]]
           /\ captured' = [x \in DOMAIN captured \cup {addr} |->
                          IF x = addr THEN timestamp ELSE captured[x]]
    /\ iter' = [iter EXCEPT ![c][w] = @ + 1]
    /\ wpc' = [wpc EXCEPT ![c][w] = "send"]
    /\ UNCHANGED <<macVars, now, CPUCount, pc, n, ids, i, routineID, results,
                   chancap, received, codecVars, sortVars>>

\* An iteration of a producer that is at most MaxAhead identifiers ahead of
\* the receiver of its call.
Build(c, w) ==
    /\ Ahead(c) < MaxAhead
    /\ Iterate(c, w)

\* A faulty ResultChan: every producer sends on the channel of the first call.
ResultChanShared(c, w) == 1

\* The channel producer <<c, w>> sends on: the resultChan its GenerateIDs call
\* was given, which line 92 makes the channel of call c.
ResultChan(c, w) == c

\* A faulty HasRoom: a send completes whatever the buffer holds.
HasRoomAlways(ch) == TRUE

\* A send on a channel completes when its buffer has room.
HasRoom(ch) == Len(results[ch]) < chancap[ch]

\* A faulty Enqueue: the item goes to the front of the buffer.
EnqueueFront(q, x) == <<x>> \o q

\* The buffer after a send: first in, first out.
Enqueue(q, x) == Append(q, x)

\* A faulty Dequeue: the item received stays in the buffer.
DequeueKeep(q) == q

\* The buffer after a receive.
Dequeue(q) == Tail(q)

\* A faulty AfterSend: the goroutine ends after its first send.
AfterSendExit == "exit"

\* for { ... }: after the send the loop starts over, and nothing leaves it.
AfterSend == "build"

\* Line 75: resultChan <- output.Bytes(), once the buffer has room.
Send(c, w) ==
    /\ wpc[c][w] = "send"
    /\ \E ch \in {ResultChan(c, w)} :
        /\ HasRoom(ch)
        /\ results' = [results EXCEPT ![ch] = Enqueue(@, output[c][w])]
    /\ wpc' = [wpc EXCEPT ![c][w] = AfterSend]
    /\ UNCHANGED <<macVars, now, CPUCount, pc, n, ids, i, routineID, chancap,
                   received, iter, uniquePart, output, heap, captured,
                   codecVars, sortVars>>

-----------------------------------------------------------------------------
(* GenerateNIDs.                                                           *)

\* Lines 82-89: ids = make([][]byte, n, n) and the channel.
StartCall(c, nn) ==
    /\ pc[c] = "idle"
    /\ IF c = 1 THEN TRUE ELSE pc[c - 1] # "idle"
    /\ pc' = [pc EXCEPT ![c] = "spawn"]
    /\ n' = [n EXCEPT ![c] = nn]
    /\ ids' = [ids EXCEPT ![c] = [k \in 1..nn |-> NIL]]
    /\ i' = [i EXCEPT ![c] = 0]
    /\ routineID' = [routineID EXCEPT ![c] = 0]
    /\ results' = [results EXCEPT ![c] = <<>>]
    /\ chancap' = [chancap EXCEPT ![c] = ChanCap]
    /\ UNCHANGED <<macVars, now, CPUCount, received, wpc, iter, uniquePart,
                   output, heap, captured, codecVars, sortVars>>

\* A faulty SpawnMore: the comparison turned round, so no producer starts.
SpawnMoreNone(c) == routineID[c] > CPUCount

\* The condition of the loop of lines 91-93.
SpawnMore(c) == routineID[c] < CPUCount

\* Lines 91-93: GenerateIDs(mac, routineID, results) starts the goroutine and
\* returns.
Spawn(c) ==
    /\ pc[c] = "spawn"
    /\ IF SpawnMore(c)
       THEN /\ wpc' = [wpc EXCEPT ![c][routineID[c]] = "build"]
            /\ routineID' = [routineID EXCEPT ![c] = @ + 1]
            /\ pc' = pc
       ELSE /\ pc' = [pc EXCEPT ![c] = "drain"]
            /\ UNCHANGED <<wpc, routineID>>
    /\ UNCHANGED <<macVars, now, CPUCount, n, ids, i, results, chancap,
                   received, iter, uniquePart, output, heap, captured,
                   codecVars, sortVars>>

\* A faulty DrainMore: the loop stops one receive short.
DrainMoreShort(c) == i[c] + 1 < n[c]

\* The condition of the loop of lines 95-97.
DrainMore(c) == i[c] < n[c]

\* A faulty Slot: the result is filled from its end.
SlotFromEnd(c) == n[c] - i[c]

\* ids[i] of line 96 (the slice is indexed from 1 here).
Slot(c) == i[c] + 1

\* Line 96: ids[i] = <-results, when the channel has an item.
Recv(c) ==
    /\ pc[c] = "drain"
    /\ DrainMore(c)
    /\ results[c] # <<>>
    /\ ids' = [ids EXCEPT ![c][Slot(c)] = Head(results[c])]
    /\ received' = [received EXCEPT ![c] = Append(@, Head(results[c]))]
    /\ results' = [results EXCEPT ![c] = Dequeue(@)]
    /\ i' = [i EXCEPT ![c] = @ + 1]
    /\ UNCHANGED <<macVars, now, CPUCount, pc, n, routineID, chancap, wpc, iter,
                   uniquePart, output, heap, captured, codecVars, sortVars>>

\* Line 98: return.
Return(c) ==
    /\ pc[c] = "drain"
    /\ ~DrainMore(c)
    /\ pc' = [pc EXCEPT ![c] = "done"]
    /\ UNCHANGED <<macVars, now, CPUCount, n, ids, i, routineID, results,
                   chancap, received, wpc, iter, uniquePart, output, heap,
                   captured, codecVars, sortVars>>

\* The clock moves on.
Tick ==
    /\ \E t \in Times : t > now /\ now' = t
    /\ UNCHANGED <<macVars, CPUCount, batchVars, codecVars, sortVars>>

-----------------------------------------------------------------------------
(* ByIDCreationTime: Len, Swap, Less, and sort.Sort over them.             *)

ByIDLen(arr) == Len(arr)

\* a[i], a[j] = a[j], a[i]
Swap(arr, x, y) == [arr EXCEPT ![x] = arr[y], ![y] = arr[x]]

\* A faulty Less: <= for <.
LessOrEqual(arr, x, y) ==
    GetUnixNanoFromID(arr[x]) <= GetUnixNanoFromID(arr[y])

Less(arr, x, y) == GetUnixNanoFromID(arr[x]) < GetUnixNanoFromID(arr[y])

NoCall == [op |-> "none", arg |-> 0, value |-> 0, err |-> "nil"]

\* GetUnixNanoFromID(input[k]): an int64 comes back and nothing else; the
\* function has no error result and does not panic.
Decode(k) ==
    /\ decoded = NoCall
    /\ k \in 1..Len(input)
    /\ decoded' = [op |-> "GetUnixNanoFromID", arg |-> k,
                   value |-> GetUnixNanoFromID(input[k]), err |-> "nil"]
    /\ UNCHANGED <<macVars, now, CPUCount, batchVars, input, sortVars>>

\* ByIDCreationTime(input).Less(0, 1)
Compare ==
    /\ decoded = NoCall
    /\ Len(input) = 2
    /\ decoded' = [op |-> "Less", arg |-> 0,
                   value |-> Less(input, 1, 2), err |-> "nil"]
    /\ UNCHANGED <<macVars, now, CPUCount, batchVars, input, sortVars>>

\* A caller of the interface swaps two elements.
CallSwap(x, y) ==
    /\ spc = "fresh"
    /\ x \in 1..ByIDLen(a)
    /\ y \in 1..ByIDLen(a)
    /\ a' = Swap(a, x, y)
    /\ UNCHANGED <<macVars, now, CPUCount, batchVars, codecVars, a0, si, sj,
                   spc>>

\* sort.Sort(ByIDCreationTime(a)): for a slice of fewer than 12 elements
\* package sort runs its insertion sort,
\*   for i := 1; i < n; i++ {
\*       for j := i; j > 0 && data.Less(j, j-1); j-- { data.Swap(j, j-1) } }
\* (indices from 1 here).
StartSort ==
    /\ spc = "fresh"
    /\ spc' = "sorting"
    /\ a0' = a
    /\ si' = 2
    /\ sj' = 2
    /\ UNCHANGED <<macVars, now, CPUCount, batchVars, codecVars, a>>

InnerMore == sj > 1 /\ Less(a, sj, sj - 1)

InnerSwap ==
    /\ spc = "sorting"
    /\ si <= ByIDLen(a)
    /\ InnerMore
    /\ a' = Swap(a, sj, sj - 1)
    /\ sj' = sj - 1
    /\ UNCHANGED <<macVars, now, CPUCount, batchVars, codecVars, a0, si, spc>>

NextOuter ==
    /\ spc = "sorting"
    /\ si <= ByIDLen(a)
    /\ ~InnerMore
    /\ si' = si + 1
    /\ sj' = si + 1
    /\ UNCHANGED <<macVars, now, CPUCount, batchVars, codecVars, a, a0, spc>>

FinishSort ==
    /\ spc = "sorting"
    /\ si > ByIDLen(a)
    /\ spc' = "sorted"
    /\ UNCHANGED <<macVars, now, CPUCount, batchVars, codecVars, a, a0, si, sj>>

-----------------------------------------------------------------------------
(* The batch specification: a caller resolves mac once (dropping the error, *)
(* as the tests do) and calls GenerateNIDs(mac, n).                         *)

\* The machines of the batch specification: one where GetMACAddress fails and
\* mac is nil, one with an Ethernet interface after the loopback.
BatchHosts ==
    { [fails |-> TRUE,  ifaces |-> <<>>],
      [fails |-> FALSE, ifaces |-> <<Lo, Eth0>>] }

IdleRest ==
    /\ input = <<>>
    /\ decoded = NoCall
    /\ a = <<>>
    /\ a0 = <<>>
    /\ si = 0
    /\ sj = 0
    /\ spc = "none"

BatchIdle ==
    /\ pc = [c \in Calls |-> "idle"]
    /\ n = [c \in Calls |-> 0]
    /\ ids = [c \in Calls |-> <<>>]
    /\ i = [c \in Calls |-> 0]
    /\ routineID = [c \in Calls |-> 0]
    /\ results = [c \in Calls |-> <<>>]
    /\ chancap = [c \in Calls |-> 0]
    /\ received = [c \in Calls |-> <<>>]
    /\ wpc = [c \in Calls |-> [w \in Workers |-> "none"]]
    /\ iter = [c \in Calls |-> [w \in Workers |-> 0]]
    /\ uniquePart = [c \in Calls |-> [w \in Workers |-> <<>>]]
    /\ output = [c \in Calls |-> [w \in Workers |-> NIL]]
    /\ heap = [x \in {} |-> <<>>]
    /\ captured = [x \in {} |-> 0]

Init ==
    /\ host \in BatchHosts
    /\ mac = GetMACAddress(host).addr
    /\ macErr = GetMACAddress(host).err
    /\ looked = GetMACAddress(host).looked
    /\ now \in Times
    /\ CPUCount \in 1..MaxCPU
    /\ BatchIdle
    /\ IdleRest

Next ==
    \/ \E nn \in 0..MaxN : StartCall(1, nn)
    \/ \E c \in Calls : Spawn(c)
    \/ \E c \in Calls, w \in Workers : Build(c, w)
    \/ \E c \in Calls, w \in Workers : Send(c, w)
    \/ \E c \in Calls : Recv(c)
    \/ \E c \in Calls : Return(c)
    \/ Tick

Spec == Init /\ [][Next]_vars

\* The scheduling the Go runtime gives, and no more than the call needs: the
\* goroutine inside GenerateNIDs takes its next step when it can, and so does
\* some producer of the call when one can.  Nothing obliges the caller to
\* call, nor the clock to move.
CallFairness(c) ==
    /\ WF_vars(Spawn(c) \/ Recv(c) \/ Return(c))
    /\ WF_vars(\E w \in Workers : Build(c, w) \/ Send(c, w))

FairInit ==
    /\ Init
    /\ host.fails = FALSE
    /\ now = -256

FairSpec == FairInit /\ [][Next]_vars /\ CallFairness(1)

-----------------------------------------------------------------------------
(* Properties of the batch specification.                                  *)

Range(s) == {s[k] : k \in 1..Len(s)}

\* The output buffers allocated so far.
Built == DOMAIN heap

\* C1: when GenerateNIDs(mac, n) has returned, its result has exactly n
\* elements (none for n = 0) and every slot holds, in order, an identifier
\* that was received from the call's channel; no slot is nil.
C1_ResultHasNReceived ==
    \A c \in Calls :
        pc[c] = "done" =>
            /\ Len(ids[c]) = n[c]
            /\ Len(received[c]) = n[c]
            /\ \A k \in 1..n[c] :
                /\ ids[c][k] # NIL
                /\ ids[c][k] \in Built
                /\ ids[c][k] = received[c][k]

C1_Witness ==
    /\ pc[1] = "done"
    /\ n[1] = 2
    /\ Len(ids[1]) = 2
    /\ ids[1][1] # ids[1][2]
    /\ NIL \notin Range(ids[1])

\* C2: under fair scheduling a GenerateNIDs(mac, n) call that has started
\* returns, for every n and every CPUCount >= 1: the spawn loop ends and the
\* n-th receive completes.
C2_CallReturns == (pc[1] \in {"spawn", "drain"}) ~> (pc[1] = "done")

C2_Witness ==
    /\ pc[1] = "done"
    /\ n[1] = 2
    /\ CPUCount = 2
    /\ Len(received[1]) = 2
    /\ results[1] # <<>>
    /\ \E w \in Workers : wpc[1][w] = "send"

\* C3: no two identifiers in the result of one GenerateNIDs call are
\* byte-equal, whichever producers built them.  Stated for the pairs the
\* documentation promises to differ, those of different producers and those
\* of different clock readings; two iterations of one producer reading one
\* clock value are the collision the source comments accept.
C3_NoTwoEqualInResult ==
    \A c \in Calls :
        pc[c] = "done" =>
            \A x, y \in 1..n[c] :
                (x < y /\ (ids[c][x][2] # ids[c][y][2]
                            \/ captured[ids[c][x]] # captured[ids[c][y]]))
                => heap[ids[c][x]] # heap[ids[c][y]]

\* C4: two identifiers one producer builds in consecutive iterations are
\* byte-unequal when the clock value it read increased from the one to the
\* other.
C4_ConsecutiveDiffer ==
    \A x, y \in Built :
        (x[1] = y[1] /\ x[2] = y[2] /\ y[3] = x[3] + 1
            /\ captured[x] < captured[y])
        => heap[x] # heap[y]

C4_Witness ==
    \E x, y \in Range(received[1]) :
        /\ x[2] = y[2]
        /\ y[3] = x[3] + 1
        /\ captured[x] < captured[y]
        /\ heap[x] # heap[y]

\* C5: every identifier a producer builds, and so every one in a channel or
\* in a result, is exactly 16 bytes: the 8 of the timestamp, then the 8 of
\* the digest, for every mac and worker index.
C5_SixteenBytes ==
    /\ \A x \in Built :
        /\ Len(heap[x]) = 16
        /\ SubSeq(heap[x], 1, 8) = PutInt64LE(captured[x])
        /\ \A k \in 1..16 : heap[x][k] \in 0..255
    /\ \A c \in Calls :
        /\ Range(results[c]) \subseteq Built
        /\ Range(received[c]) \subseteq Built
        /\ \A w \in Workers : wpc[c][w] = "send" => output[c][w] \in Built

C5_Witness ==
    /\ mac = <<>>
    /\ pc[1] = "done"
    /\ \E x \in Range(ids[1]) : x[2] = 1 /\ Len(heap[x]) = 16
    /\ \E x \in Range(results[1]) : x[2] = 0 /\ Len(heap[x]) = 16

\* C6: GetUnixNanoFromID of an identifier a producer built is the timestamp
\* read in the iteration that built it, negative ones included.
C6_TimestampRoundTrip ==
    \A x \in Built : GetUnixNanoFromID(heap[x]) = captured[x]

C6_Witness ==
    \E x, y \in Range(received[1]) :
        /\ captured[x] < 0
        /\ GetUnixNanoFromID(heap[x]) = -256
        /\ GetUnixNanoFromID(heap[y]) = 256

-----------------------------------------------------------------------------
(* The specification of GetMACAddress: any machine, one call.              *)

MACInit ==
    /\ host \in Hosts
    /\ mac = <<>>
    /\ macErr = "unset"
    /\ looked = 0
    /\ now = 0
    /\ CPUCount = 1
    /\ BatchIdle
    /\ IdleRest

MACNext == Resolve

SpecMAC == MACInit /\ [][MACNext]_vars

\* The indices of the interfaces whose name is not the loopback's.
NonLoopback(l) == {k \in 1..Len(l) : l[k].Name # "lo"}

FirstNonLoopback(l) ==
    CHOOSE k \in NonLoopback(l) : \A j \in NonLoopback(l) : k <= j

C10_BothNoSuitable ==
    (macErr # "unset" /\ (host.fails \/ NonLoopback(host.ifaces) = {}))
        => (macErr = ErrNoSuitable /\ mac = <<>>)

\* C10, amended: in both failure cases GetMACAddress returns an error and no
\* address; the error is the no-suitable-interface one when enumeration gave
\* only loopback interfaces or none, and is the error of the enumeration
\* itself, passed on unchanged, when enumeration failed.
C10_FailureCases ==
    macErr # "unset" =>
        /\ host.fails => (macErr = ErrInterfaces /\ mac = <<>>)
        /\ (~host.fails /\ NonLoopback(host.ifaces) = {})
            => (macErr = ErrNoSuitable /\ mac = <<>>)
        /\ macErr \in {"nil", ErrInterfaces, ErrNoSuitable}
        /\ macErr = "nil" => (~host.fails /\ NonLoopback(host.ifaces) # {})

C10_Witness ==
    /\ host.fails
    /\ macErr = ErrInterfaces
    /\ mac = <<>>

-----------------------------------------------------------------------------
(* The specification of the codec: GetUnixNanoFromID and Less on byte      *)
(* slices of any length.                                                   *)

\* Identifiers as the producers build them.
SampleIDs ==
    {OutputBytes(t, Sum64(EntropyBytes(t, Eth0.HardwareAddr, 0))) : t \in Stamps}

\* Those, cut short or with bytes added.
CodecInputs ==
    {SubSeq(id, 1, k) : id \in SampleIDs, k \in 0..16}
        \cup {id \o [k \in 1..x |-> 170] : id \in SampleIDs, x \in 1..MaxExtra}

CodecInit ==
    /\ input \in [1..2 -> CodecInputs]
    /\ decoded = NoCall
    /\ host = [fails |-> TRUE, ifaces |-> <<>>]
    /\ mac = <<>>
    /\ macErr = "unset"
    /\ looked = 0
    /\ now = 0
    /\ CPUCount = 1
    /\ BatchIdle
    /\ a = <<>>
    /\ a0 = <<>>
    /\ si = 0
    /\ sj = 0
    /\ spc = "none"

CodecNext == (\E k \in 1..2 : Decode(k)) \/ Compare

SpecCodec == CodecInit /\ [][CodecNext]_vars

\* The int64 whose encoding the first 8 bytes of b are.
ValueOfPrefix(b) ==
    CHOOSE v \in -300..300 : PutInt64LE(v) = SubSeq(b, 1, 8)

\* What the code makes of a byte slice of any length.
Embedded(b) == IF Len(b) < 8 THEN 0 ELSE ValueOfPrefix(b)

\* C7, as claimed: for an input that is not exactly 16 bytes long,
\* GetUnixNanoFromID and Less fail with MalformedIdentifier and return no
\* value.
C7_MalformedRejected ==
    /\ (decoded.op = "GetUnixNanoFromID" /\ Len(input[decoded.arg]) # 16)
        => decoded.err = "MalformedIdentifier"
    /\ (decoded.op = "Less" /\ \E k \in 1..2 : Len(input[k]) # 16)
        => decoded.err = "MalformedIdentifier"

\* C7, amended: for an input that is not exactly 16 bytes long
\* GetUnixNanoFromID does not fail, there is no MalformedIdentifier error: it
\* returns 0 when the input is shorter than 8 bytes, and otherwise the first 8
\* bytes read as a little-endian signed integer, whatever follows them; Less
\* compares the values so obtained.
C7_MalformedDecoded ==
    /\ decoded.err = "nil"
    /\ decoded.op = "GetUnixNanoFromID" =>
        decoded.value = Embedded(input[decoded.arg])
    /\ decoded.op = "Less" =>
        decoded.value = (Embedded(input[1]) < Embedded(input[2]))

C7_Witness ==
    /\ decoded.op = "GetUnixNanoFromID"
    /\ decoded.arg = 1
    /\ Len(input[1]) = 7
    /\ input[1][1] = 255
    /\ decoded.value = 0
    /\ decoded.err = "nil"

-----------------------------------------------------------------------------
(* The specification of sorting: a slice of identifiers, swapped at will   *)
(* and then handed to sort.Sort.                                           *)

\* Identifiers of three instants, two of them of the same instant.
SortIDs ==
    {OutputBytes(t, Sum64(EntropyBytes(t, Eth0.HardwareAddr, 0))) :
        t \in Stamps \ {-1}}
        \cup {OutputBytes(0, Sum64(EntropyBytes(0, <<>>, 0)))}

SortInit ==
    /\ a \in UNION {[1..k -> SortIDs] : k \in 0..MaxSort}
    /\ a0 = <<>>
    /\ si = 0
    /\ sj = 0
    /\ spc = "fresh"
    /\ input = <<>>
    /\ decoded = NoCall
    /\ host = [fails |-> TRUE, ifaces |-> <<>>]
    /\ mac = <<>>
    /\ macErr = "unset"
    /\ looked = 0
    /\ now = 0
    /\ CPUCount = 1
    /\ BatchIdle

SortNext ==
    \/ \E x, y \in 1..MaxSort : CallSwap(x, y)
    \/ StartSort
    \/ InnerSwap
    \/ NextOuter
    \/ FinishSort

SpecSort == SortInit /\ [][SortNext]_vars

\* The timestamp an identifier was built with.
StampOf(id) == CHOOSE t \in Stamps : SubSeq(id, 1, 8) = PutInt64LE(t)

Count(arr, v) == Cardinality({k \in 1..Len(arr) : arr[k] = v})

IsPermutation(x, y) ==
    /\ Len(x) = Len(y)
    /\ \A v \in Range(x) \cup Range(y) : Count(x, v) = Count(y, v)

LessIsTimestampOrder ==
    \A x, y \in 1..Len(a) :
        /\ Less(a, x, y) <=> (StampOf(a[x]) < StampOf(a[y]))
        /\ ~Less(a, x, x)
        /\ Less(a, x, y) => ~Less(a, y, x)
        /\ \A z \in 1..Len(a) :
            (Less(a, x, y) /\ Less(a, y, z)) => Less(a, x, z)

SortedIsOrderedPermutation ==
    spc = "sorted" =>
        /\ IsPermutation(a, a0)
        /\ \A k \in 1..(Len(a) - 1) : StampOf(a[k]) <= StampOf(a[k + 1])

SwapExchangesTwo ==
    a' # a =>
        \E x, y \in 1..Len(a) :
            /\ Len(a') = Len(a)
            /\ a'[x] = a[y]
            /\ a'[y] = a[x]
            /\ \A k \in 1..Len(a) : k \notin {x, y} => a'[k] = a[k]

\* C8: Less(i, j) holds iff the timestamp of a[i] is less than that of a[j]
\* (irreflexive, asymmetric, transitive; equal timestamps unordered), Swap
\* exchanges two elements and leaves the others alone, and sort.Sort with
\* them leaves a permutation of the input in non-decreasing timestamp order.
C8_OrderByCreationTime ==
    /\ [](LessIsTimestampOrder /\ SortedIsOrderedPermutation)
    /\ [][SwapExchangesTwo]_vars

C8_Witness ==
    /\ spc = "sorted"
    /\ Len(a) = 3
    /\ StampOf(a0[1]) > StampOf(a0[2])
    /\ StampOf(a0[2]) = StampOf(a0[3])
    /\ a0[2] # a0[3]
    /\ a # a0

-----------------------------------------------------------------------------
(* GenerateIDs called directly, as the tests do: the caller makes a        *)
(* channel of some capacity, starts producers on it and receives from it.  *)

\* results := make(chan []byte, k)
MakeChan(c, k) ==
    /\ pc[c] = "idle"
    /\ pc' = [pc EXCEPT ![c] = "direct"]
    /\ chancap' = [chancap EXCEPT ![c] = k]
    /\ results' = [results EXCEPT ![c] = <<>>]
    /\ UNCHANGED <<macVars, now, CPUCount, n, ids, i, routineID, received,
                   wpc, iter, uniquePart, output, heap, captured, codecVars,
                   sortVars>>

\* A faulty CallGenerateIDs: the call comes back once the channel has room
\* for the producer's first identifier.
CallGenerateIDsWaiting(c, r) ==
    /\ pc[c] = "direct"
    /\ wpc[c][r] = "none"
    /\ HasRoom(c)
    /\ wpc' = [wpc EXCEPT ![c][r] = "build"]
    /\ UNCHANGED <<macVars, now, CPUCount, pc, n, ids, i, routineID, results,
                   chancap, received, iter, uniquePart, output, heap,
                   captured, codecVars, sortVars>>

\* GenerateIDs(mac, r, results), lines 33-41 and 77-78: the buffers are made,
\* the go statement starts the goroutine and the function returns.
CallGenerateIDs(c, r) ==
    /\ pc[c] = "direct"
    /\ wpc[c][r] = "none"
    /\ wpc' = [wpc EXCEPT ![c][r] = "build"]
    /\ UNCHANGED <<macVars, now, CPUCount, pc, n, ids, i, routineID, results,
                   chancap, received, iter, uniquePart, output, heap,
                   captured, codecVars, sortVars>>

\* result := <-results, when the buffer has an item; the caller receives
\* MaxN times at most.
Take(c) ==
    /\ pc[c] = "direct"
    /\ Len(received[c]) < MaxN
    /\ results[c] # <<>>
    /\ received' = [received EXCEPT ![c] = Append(@, Head(results[c]))]
    /\ results' = [results EXCEPT ![c] = Dequeue(@)]
    /\ UNCHANGED <<macVars, now, CPUCount, pc, n, ids, i, routineID, chancap,
                   wpc, iter, uniquePart, output, heap, captured, codecVars,
                   sortVars>>

\* On an unbuffered channel line 75 and the caller's <-results complete
\* together: the item passes from the producer to the receiver.
Handoff(c, w) ==
    /\ wpc[c][w] = "send"
    /\ \E ch \in {ResultChan(c, w)} :
        /\ chancap[ch] = 0
        /\ pc[ch] = "direct"
        /\ Len(received[ch]) < MaxN
        /\ received' = [received EXCEPT ![ch] = Append(@, output[c][w])]
    /\ wpc' = [wpc EXCEPT ![c][w] = AfterSend]
    /\ UNCHANGED <<macVars, now, CPUCount, pc, n, ids, i, routineID, results,
                   chancap, iter, uniquePart, output, heap, captured,
                   codecVars, sortVars>>

DirectInit ==
    /\ Init
    /\ host.fails = FALSE
    /\ CPUCount = 1

DirectNext ==
    \/ \E k \in 0..MaxChan : MakeChan(1, k)
    \/ \E c \in Calls, r \in Workers : CallGenerateIDs(c, r)
    \/ \E c \in Calls, w \in Workers : Iterate(c, w)
    \/ \E c \in Calls, w \in Workers : Send(c, w)
    \/ \E c \in Calls : Take(c)
    \/ \E c \in Calls, w \in Workers : Handoff(c, w)
    \/ Tick

SpecDirect == DirectInit /\ [][DirectNext]_vars

\* The producers that have been started.
Started == {p \in Calls \X Workers : wpc[p[1]][p[2]] # "none"}

\* A caller at a GenerateIDs call completes it, whatever the channel holds.
CallNeverWaits ==
    \A c \in Calls, r \in Workers :
        (pc[c] = "direct" /\ wpc[c][r] = "none")
        => ENABLED CallGenerateIDs(c, r)

\* A started producer is in its iteration or at its send, and one in its
\* iteration can complete it.
ProducerInLoop ==
    \A p \in Started :
        /\ wpc[p[1]][p[2]] \in {"build", "send"}
        /\ wpc[p[1]][p[2]] = "build" => ENABLED Iterate(p[1], p[2])

\* No step takes a started producer out of its loop.
StaysInLoop ==
    \A p \in Started : wpc'[p[1]][p[2]] \in {"build", "send"}

\* C11: GenerateIDs does not block its caller: the call returns without any
\* receive on the channel, unbuffered or full; and the producer it starts
\* has no terminating state: it is always building its next identifier or
\* waiting in its send.
C11_NonBlockingRunsForever ==
    /\ [](CallNeverWaits /\ ProducerInLoop)
    /\ [][StaysInLoop]_vars

C11_Witness ==
    /\ pc[1] = "direct"
    /\ chancap[1] = 1
    /\ Len(results[1]) = 1
    /\ received[1] = <<>>
    /\ \A w \in Workers : wpc[1][w] = "send"

-----------------------------------------------------------------------------
(* Further properties of the batch specification.                          *)

\* The iterations of producer <<c, w>> so far, as the addresses they made.
IterationsOf(c, w) == {x \in Built : x[1] = c /\ x[2] = w}

\* The identifiers the producers of call c have made.
IterationsOfCall(c) == {x \in Built : x[1] = c}

\* The digest half of the identifier at address x.
DigestHalf(x) == SubSeq(heap[x], 9, 16)

\* C12: the worker index is part of what an iteration hashes: the entropy
\* buffer is the 8 bytes of the timestamp, the hardware address and then the
\* worker index, so two producers of one call that read the same timestamp
\* hash different buffers and send different digest halves.
C12_WorkerIndexHashed ==
    /\ \A c \in Calls, w \in Workers :
        iter[c][w] > 0 =>
            /\ Len(uniquePart[c][w]) > 8 + Len(mac)
            /\ \A v \in Workers \ {w} :
                (iter[c][v] > 0
                    /\ captured[output[c][v]] = captured[output[c][w]])
                => uniquePart[c][v] # uniquePart[c][w]
    /\ \A c \in Calls, v, w \in Workers :
        \A x \in IterationsOf(c, v), y \in IterationsOf(c, w) :
            (v # w /\ captured[x] = captured[y])
            => DigestHalf(x) # DigestHalf(y)

-----------------------------------------------------------------------------
(* Several GenerateNIDs calls in one process, one after the other or at    *)
(* the same time from different goroutines.  The clock stands still here:  *)
(* what is asked is who made an identifier and where it went.              *)

CallsInit ==
    /\ Init
    /\ host.fails = FALSE
    /\ now = -256

CallsNext ==
    \/ \E c \in Calls, nn \in 0..MaxN : StartCall(c, nn)
    \/ \E c \in Calls : Spawn(c)
    \/ \E c \in Calls, w \in Workers : Build(c, w)
    \/ \E c \in Calls, w \in Workers : Send(c, w)
    \/ \E c \in Calls : Recv(c)
    \/ \E c \in Calls : Return(c)

SpecCalls == CallsInit /\ [][CallsNext]_vars

(* Delivery, over several calls.                                           *)

\* The slots of the result of call c filled so far.
Filled(c) == 1..i[c]

\* C13: delivery is exactly once and loses nothing.  An identifier a
\* producer made is received at most once: it is in no result twice, in no
\* two results, and not in a channel once it is in a result.  If the k-th
\* identifier of a producer is in a result, every earlier identifier of that
\* producer is in the same result at an earlier position.  The result is the
\* first n items received from the call's channel, in the order received.
C13_ExactlyOnceInOrder ==
    /\ \A c \in Calls :
        /\ i[c] = Len(received[c])
        /\ \A x \in Filled(c) : ids[c][x] = received[c][x]
        /\ \A x, y \in Filled(c) : x # y => ids[c][x] # ids[c][y]
        /\ \A x \in Filled(c) : \A d \in Calls : ids[c][x] \notin Range(results[d])
        /\ \A x \in Filled(c) :
            \A k \in 1..(ids[c][x][3] - 1) :
                \E y \in 1..(x - 1) :
                    ids[c][y] = <<ids[c][x][1], ids[c][x][2], k>>
        /\ pc[c] = "done" => i[c] = n[c]
    /\ \A c, d \in Calls :
        c # d => \A x \in Filled(c), y \in Filled(d) : ids[c][x] # ids[d][y]

C13_Witness ==
    /\ CPUCount = 2
    /\ pc[1] = "done"
    /\ pc[2] = "done"
    /\ n[1] = 2
    /\ n[2] = 2
    /\ ids[1][1][2] = ids[1][2][2]
    /\ ids[1][2][3] = 2
    /\ ids[2][1][2] # ids[2][2][2]
    /\ results[1] # <<>>
    /\ results[2] # <<>>

-----------------------------------------------------------------------------
(* Memory and order in the batch specification: one call, the clock        *)
(* moving.                                                                 *)

\* The identifiers that have been sent or are waiting in a send, with the
\* place each is held at.
Held ==
    {<<"chan", c, k>> : c \in Calls, k \in 1..MaxAhead}
    \cup {<<"recv", c, k>> : c \in Calls, k \in 1..MaxN}
    \cup {<<"send", c, w + 1>> : c \in Calls, w \in Workers}

IsHeld(h) ==
    CASE h[1] = "chan" -> h[3] <= Len(results[h[2]])
      [] h[1] = "recv" -> h[3] <= Len(received[h[2]])
      [] OTHER         -> wpc[h[2]][h[3] - 1] = "send"

AddressAt(h) ==
    CASE h[1] = "chan" -> results[h[2]][h[3]]
      [] h[1] = "recv" -> received[h[2]][h[3]]
      [] OTHER         -> output[h[2]][h[3] - 1]

\* Every iteration has a buffer of its own, and two places that hold an
\* identifier hold different memory.
NoSharedMemory ==
    /\ \A c \in Calls, w \in Workers :
        Cardinality(IterationsOf(c, w)) = iter[c][w]
    /\ \A g \in Held :
        IsHeld(g) =>
            \A h \in Held \ {g} : IsHeld(h) => AddressAt(g) # AddressAt(h)

\* No step changes the bytes of a buffer that exists.
BytesStay == \A x \in Built : x \in DOMAIN heap' /\ heap'[x] = heap[x]

\* C14: each identifier is sent in a buffer of its own: the buffer of one
\* iteration is the memory of no other iteration of any producer, and no
\* later iteration, with its reset entropy buffer and hash, changes the
\* bytes of an identifier that was sent, in the channel or with a consumer.
C14_FreshOutputBuffer ==
    /\ []NoSharedMemory
    /\ [][BytesStay]_vars

C14_Witness ==
    \E w \in Workers :
        /\ iter[1][w] = 2
        /\ <<1, w, 1>> \in Range(ids[1])
        /\ <<1, w, 2>> \in Range(results[1])
        /\ heap[<<1, w, 1>>] # heap[<<1, w, 2>>]
        /\ uniquePart[1][w] = EntropyBytes(captured[<<1, w, 2>>], mac, w)

\* The timestamp embedded in the identifier at address x.
Embedded16(x) == GetUnixNanoFromID(heap[x])

\* C16: the iterations of one producer are ordered in time: of two
\* identifiers of one producer in a result, the one earlier in the result is
\* of the earlier iteration and its embedded timestamp is not later; it is
\* strictly earlier when the clock moved on between the two readings.  (The
\* clock never goes backwards.)
C16_PerWorkerOrder ==
    \A c \in Calls :
        \A x, y \in Filled(c) :
            (x < y /\ ids[c][x][2] = ids[c][y][2]) =>
                /\ ids[c][x][3] < ids[c][y][3]
                /\ Embedded16(ids[c][x]) <= Embedded16(ids[c][y])
                /\ captured[ids[c][x]] # captured[ids[c][y]]
                    => Embedded16(ids[c][x]) < Embedded16(ids[c][y])

C16_Witness ==
    /\ CPUCount = 2
    /\ pc[1] = "done"
    /\ n[1] = 2
    /\ ids[1][1][2] = ids[1][2][2]
    /\ Embedded16(ids[1][1]) = -256
    /\ Embedded16(ids[1][2]) = 256

\* C17: the result is in the order of receipt, which need not be the order
\* of the timestamps: an identifier may stand before one with a strictly
\* earlier embedded timestamp.  The two are then of different producers (so
\* there are two producers at least): one read the clock earlier and sent
\* later.
C17_ReceiptOrderNotChronological ==
    \A c \in Calls :
        \A x, y \in Filled(c) :
            /\ ids[c][x] = received[c][x]
            /\ (x < y /\ Embedded16(ids[c][x]) > Embedded16(ids[c][y])) =>
                /\ CPUCount >= 2
                /\ ids[c][x][2] # ids[c][y][2]
                /\ captured[ids[c][y]] < captured[ids[c][x]]

C17_Witness ==
    /\ pc[1] = "done"
    /\ n[1] = 2
    /\ Embedded16(ids[1][1]) > Embedded16(ids[1][2])
    /\ ids[1][1][2] # ids[1][2][2]

-----------------------------------------------------------------------------
(* One GenerateNIDs call on one processor, its producer running as far as  *)
(* the channel lets it: no bound of the model holds it back, and the       *)
(* channel fills.  The clock stands still.                                 *)

FullInit ==
    /\ Init
    /\ host.fails = FALSE
    /\ now = -256
    /\ CPUCount = 1

FullNext ==
    \/ \E nn \in 0..MaxN : StartCall(1, nn)
    \/ \E c \in Calls : Spawn(c)
    \/ \E c \in Calls, w \in Workers : Iterate(c, w)
    \/ \E c \in Calls, w \in Workers : Send(c, w)
    \/ \E c \in Calls : Recv(c)
    \/ \E c \in Calls : Return(c)

SpecFull == FullInit /\ [][FullNext]_vars

\* The goroutine inside GenerateNIDs takes its next step when it can, and so
\* does some producer of the call when one can.
FullFairness(c) ==
    /\ WF_vars(Spawn(c) \/ Recv(c) \/ Return(c))
    /\ WF_vars(\E w \in Workers : Iterate(c, w) \/ Send(c, w))

FairSpecFull == FullInit /\ [][FullNext]_vars /\ FullFairness(1)

\* How many identifiers of producer <<c, w>> the queue q holds.
CountOf(q, c, w) ==
    Cardinality({k \in 1..Len(q) : q[k][1] = c /\ q[k][2] = w})

\* The identifiers producer <<c, w>> has made and not sent.
Unsent(c, w) ==
    iter[c][w] - CountOf(results[c], c, w) - CountOf(received[c], c, w)

\* C15: the channel of a call with W producers never holds more than 128*W
\* identifiers.  A producer whose send cannot complete, the channel being
\* full, is blocked: it neither sends nor begins an iteration, so it reads
\* no timestamp and makes no identifier; a producer has one identifier made
\* and not sent while it is at its send and none otherwise.  The receive of
\* GenerateNIDs waits while the channel is empty.
C15_Backpressure ==
    \A c \in Calls :
        /\ Len(results[c]) <= 128 * CPUCount
        /\ \A w \in Workers :
            /\ (wpc[c][w] = "send" /\ Len(results[c]) >= chancap[c]) =>
                /\ ~ENABLED Send(c, w)
                /\ ~ENABLED Iterate(c, w)
            /\ Unsent(c, w) = IF wpc[c][w] = "send" THEN 1 ELSE 0
        /\ (pc[c] = "drain" /\ DrainMore(c) /\ results[c] = <<>>) =>
            /\ ~ENABLED Recv(c)
            /\ ~ENABLED Return(c)

C15_Witness ==
    /\ pc[1] = "drain"
    /\ n[1] = 2
    /\ i[1] = 1
    /\ Len(results[1]) = 128
    /\ wpc[1][0] = "send"
    /\ iter[1][0] = 130

\* Every producer of call c is at its send and the channel is full.
Saturated(c) ==
    /\ Len(results[c]) = 128 * CPUCount
    /\ \A w \in 0..(CPUCount - 1) : wpc[c][w] = "send"

\* The identifiers made for call c.
Created(c) == Cardinality({x \in Built : x[1] = c})

\* C19: the work done for one GenerateNIDs(mac, n) call is bounded: its W
\* producers make n + 128*W + W identifiers at most, and once the call has
\* returned the channel comes to hold 128*W identifiers with every producer
\* waiting in its send, and that is how things stay.
C19_WorkIsBounded ==
    /\ [](\A c \in Calls : Created(c) <= n[c] + 128 * CPUCount + CPUCount)
    /\ (pc[1] = "done") ~> [](Saturated(1))

C19_Witness ==
    /\ pc[1] = "done"
    /\ n[1] = 2
    /\ Saturated(1)
    /\ Created(1) = 2 + 128 + 1

-----------------------------------------------------------------------------
(* Properties of several calls.                                            *)

\* The producers that are running: in their iteration or at their send.
Alive == {p \in Calls \X Workers : wpc[p[1]][p[2]] \in {"build", "send"}}

\* The calls whose spawn loop has ended, and those that have returned.
Spawned  == {c \in Calls : pc[c] \in {"drain", "done"}}
Returned == {c \in Calls : pc[c] = "done"}

\* The producers of a call past its spawn loop are those with routineID
\* 0..CPUCount-1, all running; between calls there are CPUCount running
\* producers for each call made.
ProducersOutlive ==
    /\ \A c \in Spawned :
        \A w \in Workers : (<<c, w>> \in Alive) <=> (w < CPUCount)
    /\ (\A c \in Calls : pc[c] \in {"idle", "done"})
        => Cardinality(Alive) = Cardinality(Returned) * CPUCount

\* No step ends a producer.
NoneEnds == Alive \subseteq Alive'

\* C18: producers outlive the call.  When GenerateNIDs returns, the W
\* producers it started, those of indices 0..W-1, are all running, and they
\* are from then on; after k calls there are k*W producers, W more with each
\* call and never fewer.
C18_ProducersOutliveCall ==
    /\ []ProducersOutlive
    /\ [][NoneEnds]_vars

C18_Witness ==
    /\ CPUCount = 2
    /\ pc[1] = "done"
    /\ pc[2] = "done"
    /\ Cardinality(Alive) = 4
    /\ \A p \in Alive : iter[p[1]][p[2]] >= 1
    /\ \E w \in Workers : iter[1][w] > n[1]

\* C20: calls are isolated from each other.  Each call has a channel and
\* producers of its own: what a call's channel carries and what its result
\* holds was made by producers that call started, so a producer an earlier
\* call left behind delivers nothing into a later call's result; and every
\* call, alone or beside another, returns its own n identifiers.
C20_CallsIsolated ==
    \A c \in Calls :
        /\ \A k \in 1..Len(results[c]) : results[c][k][1] = c
        /\ \A x \in Filled(c) : ids[c][x][1] = c
        /\ \A d \in Calls \ {c}, w \in Workers :
            wpc[d][w] = "send" => output[d][w] \notin Range(results[c])
        /\ pc[c] = "done" =>
            /\ Len(ids[c]) = n[c]
            /\ i[c] = n[c]
            /\ \A x \in 1..n[c] : ids[c][x] \in IterationsOfCall(c)

C20_Witness ==
    /\ CPUCount = 2
    /\ pc[1] = "drain"
    /\ n[1] = 2
    /\ i[1] = 1
    /\ results[1] # <<>>
    /\ pc[2] = "done"
    /\ n[2] = 2
    /\ ids[2][1][2] # ids[2][2][2]
    /\ results[2] # <<>>

====
